---- MODULE Spec2Model ----
(***************************************************************************)
(* Cave-In: the grid world, the breadth-first searches of the pathfinding  *)
(* package, the PathFinder planner that commits a route to the nearest     *)
(* stick, and the game loop in which the player follows it, collects       *)
(* sticks and removes rocks.  Positions are pairs <<x, y>>; a route is a   *)
(* sequence of positions; Python's None is the model value None.           *)
(***************************************************************************)
EXTENDS Integers, Sequences, FiniteSets, TLC

(* ---------------------------------------------------------------------- *)
(* Bounds of the model.  The game runs on a 10 x 10 board with a view       *)
(* radius of 4 (config.py:57, 59); the model runs the same code on a        *)
(* GRID_SIZE x GRID_SIZE board with view radius VIEW_RADIUS.  MaxRocks      *)
(* bounds the rocks scattered over the board, the sticks collected at the   *)
(* start and the budgets searched with.  In the game, MaxSticks bounds the  *)
(* sticks held at once and MaxFrames the frames the loop runs.              *)
(* ---------------------------------------------------------------------- *)
GRID_SIZE == 3

MaxRocks == 1

VIEW_RADIUS == 2
MaxSticks == 2

MaxFrames == 2

(* The rocks on the grid of a game in progress. *)
MaxPlaced == 2


STICK_VALUE == GRID_SIZE

None == "None"

(* ---------------------------------------------------------------------- *)
(* config.py: Direction                                                     *)
(* ---------------------------------------------------------------------- *)
UP == <<0, -1>>

RIGHT == <<1, 0>>

DOWN == <<0, 1>>

LEFT == <<-1, 0>>

NONE == <<0, 0>>

(* Fault: the last direction is a diagonal. *)
directions_with_diagonal == <<UP, RIGHT, DOWN, <<-1, -1>>>>

(* Fault: the directions are listed from left round to up. *)
directions_from_left == <<LEFT, DOWN, RIGHT, UP>>

directions == <<UP, RIGHT, DOWN, LEFT>>

Pos == (0 .. GRID_SIZE - 1) \X (0 .. GRID_SIZE - 1)

(* World: grid, player (position, facing), stats.sticks_collected.
   PathFinder: current_path, last_movement.  ActionHandler: handler_path is its
   current_path.  call is the last call made on the objects with what it
   returned; raised is the exception that call ended with, if any.
   Clock readings are kept as ages: move_age is time.time() less
   Player.last_move_time and action_age is time.time() less
   ActionHandler.last_action_time, in hundredths of a second and no further
   than the cooldown, beyond which no comparison tells them apart.
   observed is the sticks and rocks on the grid when the route was last
   planned; frame counts the frames the game loop has run. *)
VARIABLES grid, player, sticks_collected, current_path, handler_path,
          last_movement, call, raised,
          move_age, action_age, last_action_success, observed, frame

vars == <<grid, player, sticks_collected, current_path, handler_path,
          last_movement, call, raised,
          move_age, action_age, last_action_success, observed, frame>>

AttributeError == "AttributeError"

(* A cell is a record: its class and the position it stores. *)
Cell(pos) == [type |-> "Cell", position |-> pos]

Rock(pos) == [type |-> "Rock", position |-> pos]

Stick(pos) == [type |-> "Stick", position |-> pos]

Player(pos) == [type |-> "Player", position |-> pos, facing |-> DOWN]

(* type(world.grid.get(pos)): NoneType for a key the grid does not hold. *)
TypeOf(pos) == IF pos \in DOMAIN grid THEN grid[pos].type ELSE "NoneType"

(* float('inf') and a finite length, for best_length. *)
Inf == <<>>

Fin(n) == <<n>>

(* ---------------------------------------------------------------------- *)
(* GridAnalyzer                                                             *)
(* ---------------------------------------------------------------------- *)
is_rock(pos) == TypeOf(pos) = "Rock"

_is_in_bounds(pos) ==
    /\ 0 <= pos[1] /\ pos[1] < GRID_SIZE
    /\ 0 <= pos[2] /\ pos[2] < GRID_SIZE

(* isinstance(cell, (Cell, Rock, Stick)): Rock, Stick and Player all derive
   from Cell, so every cell object passes and only None fails. *)
_is_valid_cell(pos) == TypeOf(pos) \in {"Cell", "Rock", "Stick", "Player"}

_get_next_position(pos, d) ==
    LET next_pos == <<pos[1] + d[1], pos[2] + d[2]>>
    IN  IF _is_in_bounds(next_pos) THEN next_pos ELSE None

RECURSIVE NeighborsFrom(_, _)
NeighborsFrom(pos, i) ==
    IF i > Len(directions) THEN <<>>
    ELSE LET next_pos == _get_next_position(pos, directions[i])
         IN  IF next_pos # None /\ _is_valid_cell(next_pos)
             THEN <<next_pos>> \o NeighborsFrom(pos, i + 1)
             ELSE NeighborsFrom(pos, i + 1)

get_valid_neighbors(pos) == NeighborsFrom(pos, 1)

(* ---------------------------------------------------------------------- *)
(* PathSearch: the budgeted search.  A queue entry is                       *)
(* (current, path, removed_rocks); visited holds (position, removal set).   *)
(* ---------------------------------------------------------------------- *)
_initialize_search_queue(start) ==
    << [current |-> start, path |-> <<start>>, removed |-> {}] >>

_should_skip_path(path, best_length) ==
    best_length # Inf /\ Len(path) >= best_length[1]

_is_target_reached(current, target) == current = target

_update_best_path(path, current_best) ==
    [path |-> path, length |-> Fin(Len(path))]

(* Fault: one rock more than the budget is let through. *)
_is_valid_path_extension_off_by_one(pos, removed_rocks, max_rocks) ==
    IF is_rock(pos) THEN Cardinality(removed_rocks) <= max_rocks ELSE TRUE

(* Fault: the comparison with the budget is reversed. *)
_is_valid_path_extension_reversed(pos, removed_rocks, max_rocks) ==
    IF is_rock(pos) THEN Cardinality(removed_rocks) >= max_rocks ELSE TRUE

(* Fault: the budget is not looked at. *)
_is_valid_path_extension_unbounded(pos, removed_rocks, max_rocks) == TRUE

_is_valid_path_extension(pos, removed_rocks, max_rocks) ==
    IF is_rock(pos) THEN Cardinality(removed_rocks) < max_rocks ELSE TRUE

_update_removed_rocks(pos, removed_rocks) ==
    IF is_rock(pos) THEN removed_rocks \cup {pos} ELSE removed_rocks

(* Returns the new queue entry (or None) and the visited set as the call
   leaves it. *)
_try_path_through_position(next_pos, path, removed_rocks, max_rocks, visited) ==
    IF ~_is_valid_path_extension(next_pos, removed_rocks, max_rocks)
    THEN [result |-> None, visited |-> visited]
    ELSE LET new_removed == _update_removed_rocks(next_pos, removed_rocks)
             state == <<next_pos, new_removed>>
         IN  IF state \notin visited
             THEN [result |-> << [current |-> next_pos,
                                  path |-> Append(path, next_pos),
                                  removed |-> new_removed] >>,
                   visited |-> visited \cup {state}]
             ELSE [result |-> None, visited |-> visited]

RECURSIVE ExploreFrom(_, _, _, _, _, _, _)
ExploreFrom(nbrs, i, path, removed_rocks, max_rocks, visited, queue) ==
    IF i > Len(nbrs) THEN [queue |-> queue, visited |-> visited]
    ELSE LET r == _try_path_through_position(nbrs[i], path, removed_rocks,
                                             max_rocks, visited)
         IN  ExploreFrom(nbrs, i + 1, path, removed_rocks, max_rocks, r.visited,
                         IF r.result # None THEN queue \o r.result ELSE queue)

explore_neighbors(current, path, removed_rocks, max_rocks, visited, queue) ==
    ExploreFrom(get_valid_neighbors(current), 1, path, removed_rocks,
                max_rocks, visited, queue)

RECURSIVE SearchWithRocks(_, _, _, _, _, _)
SearchWithRocks(queue, visited, best_path, best_length, target_pos, max_rocks) ==
    IF queue = <<>> THEN best_path
    ELSE LET e == Head(queue)
         IN  IF _should_skip_path(e.path, best_length)
             THEN SearchWithRocks(Tail(queue), visited, best_path, best_length,
                                  target_pos, max_rocks)
             ELSE IF _is_target_reached(e.current, target_pos)
             THEN LET b == _update_best_path(e.path, best_length)
                  IN  SearchWithRocks(Tail(queue), visited, b.path, b.length,
                                      target_pos, max_rocks)
             ELSE LET r == explore_neighbors(e.current, e.path, e.removed,
                                             max_rocks, visited, Tail(queue))
                  IN  SearchWithRocks(r.queue, r.visited, best_path, best_length,
                                      target_pos, max_rocks)

breadth_first_search_with_rocks(start, target_pos, max_rocks) ==
    SearchWithRocks(_initialize_search_queue(start), {<<start, {}>>},
                    None, Inf, target_pos, max_rocks)

(* ---------------------------------------------------------------------- *)
(* PathSearch: the search that avoids every rock.                           *)
(* ---------------------------------------------------------------------- *)
RECURSIVE ExploreRockFreeFrom(_, _, _, _, _)
ExploreRockFreeFrom(nbrs, i, path, visited, queue) ==
    IF i > Len(nbrs) THEN [queue |-> queue, visited |-> visited]
    ELSE IF nbrs[i] \notin visited /\ ~is_rock(nbrs[i])
         THEN ExploreRockFreeFrom(nbrs, i + 1, path, visited \cup {nbrs[i]},
                  Append(queue, [current |-> nbrs[i],
                                 path |-> Append(path, nbrs[i])]))
         ELSE ExploreRockFreeFrom(nbrs, i + 1, path, visited, queue)

explore_rock_free_neighbors(current, path, visited, queue) ==
    ExploreRockFreeFrom(get_valid_neighbors(current), 1, path, visited, queue)

RECURSIVE SearchNoRocks(_, _, _)
SearchNoRocks(queue, visited, target_pos) ==
    IF queue = <<>> THEN None
    ELSE LET e == Head(queue)
         IN  IF e.current = target_pos THEN e.path
             ELSE LET r == explore_rock_free_neighbors(e.current, e.path,
                                                       visited, Tail(queue))
                  IN  SearchNoRocks(r.queue, r.visited, target_pos)

(* Fault: the search is handed to the budgeted search with every rock
   allowed. *)
breadth_first_search_through_rocks(start, target_pos) ==
    breadth_first_search_with_rocks(start, target_pos, GRID_SIZE * GRID_SIZE)

breadth_first_search_no_rocks(start, target_pos) ==
    SearchNoRocks(<< [current |-> start, path |-> <<start>>] >>, {start},
                  target_pos)

(* ---------------------------------------------------------------------- *)
(* PathCalculator (path_calculator.py): the calculator whose every method   *)
(* the planner calls exists.  find_path_to_position takes the budget from   *)
(* the stats; find_path_with_max_rocks hands its call on to it.             *)
(* ---------------------------------------------------------------------- *)
_breadth_first_search_with_rocks(start, target_pos, max_rocks) ==
    breadth_first_search_with_rocks(start, target_pos, max_rocks)

_breadth_first_search_no_rocks(start, target_pos) ==
    breadth_first_search_no_rocks(start, target_pos)

(* Fault: the search is given one rock more than the sticks collected. *)
find_path_to_position_on_credit(target_pos) ==
    _breadth_first_search_with_rocks(player.position, target_pos,
                                     sticks_collected + 1)

find_path_to_position(target_pos) ==
    LET start_pos == player.position
        max_rocks == sticks_collected
    IN  _breadth_first_search_with_rocks(start_pos, target_pos, max_rocks)

(* Fault: the search that should avoid rocks spends the collected sticks. *)
find_path_without_rocks_budgeted(target_pos) ==
    _breadth_first_search_with_rocks(player.position, target_pos,
                                     sticks_collected)

find_path_without_rocks(target_pos) ==
    _breadth_first_search_no_rocks(player.position, target_pos)

(* Fault: the attempt is searched with every rock allowed. *)
find_path_with_any_rocks(max_rocks, target_pos) ==
    _breadth_first_search_with_rocks(player.position, target_pos,
                                     GRID_SIZE * GRID_SIZE)

find_path_with_max_rocks(max_rocks, target_pos) ==
    find_path_to_position(target_pos)

RECURSIVE CountRocksFrom(_, _)
CountRocksFrom(path, i) ==
    IF i > Len(path) THEN 0
    ELSE (IF is_rock(path[i]) THEN 1 ELSE 0) + CountRocksFrom(path, i + 1)

count_rocks_in_path(path) == CountRocksFrom(path, 1)

(* The grid dict keeps its insertion order (0,0), (0,1), ..: x outer, y inner. *)
GridKeys ==
    [i \in 1 .. GRID_SIZE * GRID_SIZE |->
        <<(i - 1) \div GRID_SIZE, (i - 1) % GRID_SIZE>>]

RECURSIVE SticksFrom(_)
SticksFrom(i) ==
    IF i > Len(GridKeys) THEN <<>>
    ELSE (IF TypeOf(GridKeys[i]) = "Stick" THEN <<GridKeys[i]>> ELSE <<>>)
         \o SticksFrom(i + 1)

find_sticks == SticksFrom(1)

(* ---------------------------------------------------------------------- *)
(* Exact arithmetic for the float expressions of the scan.  A unit vector   *)
(* (x / sqrt(len2), y / sqrt(len2)) is kept as the integers x, y, len2;     *)
(* int() truncates toward zero; scores are compared without rounding.       *)
(* ---------------------------------------------------------------------- *)
Abs(x) == IF x < 0 THEN -x ELSE x

Sgn(x) == IF x > 0 THEN 1 ELSE IF x < 0 THEN -1 ELSE 0

(* int(num / sqrt(len2)) *)
TruncOverSqrt(num, len2) ==
    IF len2 = 0 THEN 0
    ELSE Sgn(num) * (CHOOSE k \in 0 .. Abs(num) :
                        /\ k * k * len2 <= num * num
                        /\ (k + 1) * (k + 1) * len2 > num * num)

(* The sign of a + b * sqrt(n), n >= 0. *)
SignSqrt(a, b, n) ==
    LET sb == IF n = 0 THEN 0 ELSE Sgn(b)
        d == a * a - b * b * n
    IN  IF Sgn(a) = 0 THEN sb
        ELSE IF sb = 0 \/ sb = Sgn(a) THEN Sgn(a)
        ELSE IF d > 0 THEN Sgn(a) ELSE IF d < 0 THEN sb ELSE 0

(* The sign of P * sqrt(m) + Q * sqrt(n) + R, m, n >= 1. *)
SignSqrt2(P, m, Q, n, R) ==
    LET d == P * P * m - Q * Q * n
        sT == IF Sgn(P) = 0 THEN Sgn(Q)
              ELSE IF Sgn(Q) = 0 \/ Sgn(Q) = Sgn(P) THEN Sgn(P)
              ELSE IF d > 0 THEN Sgn(P) ELSE IF d < 0 THEN Sgn(Q) ELSE 0
        s2 == SignSqrt(P * P * m + Q * Q * n - R * R, 2 * P * Q, m * n)
    IN  IF sT = 0 THEN Sgn(R)
        ELSE IF Sgn(R) = 0 \/ Sgn(R) = sT THEN sT
        ELSE IF s2 > 0 THEN sT ELSE IF s2 < 0 THEN Sgn(R) ELSE 0

(* ---------------------------------------------------------------------- *)
(* PathFinder: position scoring                                             *)
(* ---------------------------------------------------------------------- *)
_normalize_vector(dx, dy) ==
    IF dx * dx + dy * dy = 0 THEN [x |-> 0, y |-> 0, len2 |-> 1]
    ELSE [x |-> dx, y |-> dy, len2 |-> dx * dx + dy * dy]

_is_valid_position(pos) ==
    IF ~(0 <= pos[1] /\ pos[1] < GRID_SIZE /\ 0 <= pos[2] /\ pos[2] < GRID_SIZE)
    THEN FALSE
    ELSE TypeOf(pos) \in {"Cell", "Rock", "Stick", "Player"}

_is_valid_check_position(current_pos, check_pos) ==
    IF ~_is_valid_position(check_pos) THEN FALSE
    ELSE Abs(current_pos[1] - check_pos[1]) + Abs(current_pos[2] - check_pos[2])
            <= VIEW_RADIUS

(* (dot_product + 1) / 2 with dot_product = dot / sqrt(len2); 1.0 is kept as
   dot = 1, len2 = 1. *)
_calculate_direction_alignment(pos, target_pos) ==
    IF pos = target_pos THEN [dot |-> 1, len2 |-> 1]
    ELSE LET target_vector == _normalize_vector(target_pos[1] - pos[1],
                                                target_pos[2] - pos[2])
             current_vector == _normalize_vector(last_movement[1], last_movement[2])
         IN  [dot |-> target_vector.x * current_vector.x
                      + target_vector.y * current_vector.y,
              len2 |-> target_vector.len2 * current_vector.len2]

(* rocks_count / checked_cells over the 5 x 5 area; 0 is kept as 0 / 1. *)
_calculate_local_rock_density(pos) ==
    LET area == {<<pos[1] + dx, pos[2] + dy>> : dx \in -2 .. 2, dy \in -2 .. 2}
        checked == {q \in area : _is_valid_position(q)}
        rocks == {q \in checked : TypeOf(q) = "Rock"}
    IN  IF Cardinality(checked) > 0
        THEN [rocks |-> Cardinality(rocks), cells |-> Cardinality(checked)]
        ELSE [rocks |-> 0, cells |-> 1]

(* progress_score * (1 - direction_alignment * 0.3) * (1 + rock_density * 0.5),
   kept as its terms. *)
_score_position(pos, target_pos) ==
    [progress |-> Abs(pos[1] - target_pos[1]) + Abs(pos[2] - target_pos[2]),
     alignment |-> _calculate_direction_alignment(pos, target_pos),
     density |-> _calculate_local_rock_density(pos)]

(* score a < score b.  With U = progress * (2 * cells + rocks) / (2 * cells) the
   score is U * (17 - 3 * dot / sqrt(len2)) / 20. *)
ScoreLess(a, b) ==
    LET Ua == a.progress * (2 * a.density.cells + a.density.rocks)
                * (2 * b.density.cells)
        Ub == b.progress * (2 * b.density.cells + b.density.rocks)
                * (2 * a.density.cells)
        La == a.alignment.len2
        Lb == b.alignment.len2
    IN  SignSqrt2(3 * Ua * a.alignment.dot * Lb, La,
                  -3 * Ub * b.alignment.dot * La, Lb,
                  17 * (Ub - Ua) * La * Lb) > 0

(* ---------------------------------------------------------------------- *)
(* PathFinder: the visibility scan                                          *)
(* ---------------------------------------------------------------------- *)
_calculate_scan_vectors(current_pos, target_pos) ==
    LET primary_vector == _normalize_vector(target_pos[1] - current_pos[1],
                                            target_pos[2] - current_pos[2])
    IN  [primary |-> primary_vector,
         secondary |-> [x |-> -primary_vector.y, y |-> primary_vector.x,
                        len2 |-> primary_vector.len2]]

_calculate_check_position(main_pos, secondary_vector, offset) ==
    <<main_pos[1] + TruncOverSqrt(secondary_vector.x * offset, secondary_vector.len2),
      main_pos[2] + TruncOverSqrt(secondary_vector.y * offset, secondary_vector.len2)>>

_get_main_scan_position(current_pos, primary_vector, distance) ==
    <<current_pos[1] + TruncOverSqrt(primary_vector.x * distance, primary_vector.len2),
      current_pos[2] + TruncOverSqrt(primary_vector.y * distance, primary_vector.len2)>>

(* best is (best_pos, best_score); best_score is Inf or Fin(score). *)
RECURSIVE ScanOffsetsFrom(_, _, _, _, _, _, _)
ScanOffsetsFrom(offset, last, current_pos, main_pos, secondary_vector, best, target_pos) ==
    IF offset > last THEN best
    ELSE LET check_pos == _calculate_check_position(main_pos, secondary_vector, offset)
             score == _score_position(check_pos, target_pos)
             better == /\ _is_valid_check_position(current_pos, check_pos)
                       /\ (best.score = Inf \/ ScoreLess(score, best.score[1]))
         IN  ScanOffsetsFrom(offset + 1, last, current_pos, main_pos, secondary_vector,
                             IF better THEN [pos |-> check_pos, score |-> Fin(score)]
                             ELSE best,
                             target_pos)

(* range(-distance // 2, distance // 2 + 1) *)
_scan_perpendicular(current_pos, main_pos, secondary_vector, distance, best, target_pos) ==
    ScanOffsetsFrom((-distance) \div 2, distance \div 2, current_pos, main_pos,
                    secondary_vector, best, target_pos)

RECURSIVE ScanDistancesFrom(_, _, _, _, _)
ScanDistancesFrom(d, current_pos, vectors, best, target_pos) ==
    IF d > VIEW_RADIUS THEN best.pos
    ELSE LET main_pos == _get_main_scan_position(current_pos, vectors.primary, d)
         IN  ScanDistancesFrom(d + 1, current_pos, vectors,
                 _scan_perpendicular(current_pos, main_pos, vectors.secondary, d,
                                     best, target_pos),
                 target_pos)

_scan_for_best_position(current_pos, vectors, target_pos) ==
    ScanDistancesFrom(0, current_pos, vectors, [pos |-> None, score |-> Inf],
                      target_pos)

(* Fault: the target itself is returned, in view or not. *)
_find_best_visible_position_target(current_pos, target_pos) == target_pos

_find_best_visible_position(current_pos, target_pos) ==
    _scan_for_best_position(current_pos,
                            _calculate_scan_vectors(current_pos, target_pos),
                            target_pos)

(* ---------------------------------------------------------------------- *)
(* PathFinder: planning.  A planning function yields the paths it leaves    *)
(* in PathFinder.current_path and ActionHandler.current_path, the exception *)
(* it ends with (or None), and a trace of the searches it ran.              *)
(* ---------------------------------------------------------------------- *)
_clear_paths == [current_path |-> <<>>, handler_path |-> <<>>, raised |-> None]

(* path[1:] *)
_set_paths(path) ==
    [current_path |-> SubSeq(path, 2, Len(path)), handler_path |-> path,
     raised |-> None]

(* An exception leaves both paths as they were. *)
Raise(exception) ==
    [current_path |-> current_path, handler_path |-> handler_path,
     raised |-> exception]

_has_valid_state == find_sticks # <<>>

RECURSIVE MinByDistanceFrom(_, _, _)
MinByDistanceFrom(sticks, i, best) ==
    IF i > Len(sticks) THEN best
    ELSE LET key(pos) == Abs(pos[1] - player.position[1])
                         + Abs(pos[2] - player.position[2])
         IN  MinByDistanceFrom(sticks, i + 1,
                               IF key(sticks[i]) < key(best) THEN sticks[i] ELSE best)

_find_closest_stick ==
    LET sticks == find_sticks
    IN  IF sticks = <<>> THEN None ELSE MinByDistanceFrom(sticks, 2, sticks[1])

(* Direction has no member EAST, WEST, SOUTH or NORTH. *)
_vector_to_direction(vector) ==
    IF vector[1] = 0 /\ vector[2] = 0 THEN NONE ELSE AttributeError

_get_current_movement_direction ==
    IF Len(current_path) >= 2
    THEN _vector_to_direction(<<current_path[2][1] - current_path[1][1],
                                current_path[2][2] - current_path[1][2]>>)
    ELSE player.facing

(* The heuristic closure is handed over and never called. *)
_find_initial_path(target_pos) ==
    LET current_direction == _get_current_movement_direction
    IN  IF current_direction = AttributeError THEN AttributeError
        ELSE find_path_to_position(target_pos)

(* best is (best_path, best_score); attempts lists, for every budget tried,
   the budget, what find_path_with_max_rocks returned and the score given. *)
RECURSIVE BinarySearchFrom(_, _, _, _, _)
BinarySearchFrom(left, right, best, attempts, target_pos) ==
    IF left > right
    THEN [alternative |-> IF best.path # None
                          THEN <<best.path, best.score[1]>> ELSE None,
          attempts |-> attempts]
    ELSE LET mid == (left + right) \div 2
             path == find_path_with_max_rocks(mid, target_pos)
             score == (STICK_VALUE * mid) + Len(path)
         IN  IF path # None /\ path # <<>>
             THEN BinarySearchFrom(left, mid - 1,
                      IF best.score = Inf \/ score < best.score[1]
                      THEN [path |-> path, score |-> Fin(score)] ELSE best,
                      Append(attempts, [max_rocks |-> mid, path |-> path,
                                        score |-> Fin(score)]),
                      target_pos)
             ELSE BinarySearchFrom(mid + 1, right, best,
                      Append(attempts, [max_rocks |-> mid, path |-> path,
                                        score |-> Inf]),
                      target_pos)

_find_best_alternative_path(max_rocks, target_pos) ==
    BinarySearchFrom(0, max_rocks, [path |-> None, score |-> Inf], <<>>, target_pos)

_optimize_path_with_rocks(path, target_pos) ==
    LET rocks_in_path == count_rocks_in_path(path)
        search == _find_best_alternative_path(rocks_in_path, target_pos)
        current_score == Len(path) + (STICK_VALUE * rocks_in_path)
    IN  IF rocks_in_path = 0
        THEN _set_paths(path) @@ [attempts |-> <<>>, alternative |-> None]
        ELSE (IF search.alternative # None /\ search.alternative[2] < current_score
              THEN _set_paths(search.alternative[1])
              ELSE _set_paths(path)) @@ search

_find_optimal_path_with_rocks(target_pos) ==
    LET path == _find_initial_path(target_pos)
    IN  IF path = AttributeError
        THEN Raise(AttributeError)
             @@ [baseline |-> None, searched |-> FALSE,
                 attempts |-> <<>>, alternative |-> None]
        ELSE IF path = None \/ path = <<>>
        THEN _clear_paths
             @@ [baseline |-> path, searched |-> TRUE,
                 attempts |-> <<>>, alternative |-> None]
        ELSE _optimize_path_with_rocks(path, target_pos)
             @@ [baseline |-> path, searched |-> TRUE]

_find_and_set_path(target_stick) ==
    LET path == find_path_without_rocks(target_stick)
        visible_target == _find_best_visible_position(player.position, target_stick)
    IN  IF path # None /\ path # <<>>
        THEN _set_paths(path)
             @@ [no_rocks |-> path, scanned |-> FALSE, visible_target |-> None,
                 baseline |-> None, searched |-> FALSE,
                 attempts |-> <<>>, alternative |-> None]
        ELSE IF visible_target = None
        THEN _clear_paths
             @@ [no_rocks |-> path, scanned |-> TRUE, visible_target |-> None,
                 baseline |-> None, searched |-> FALSE,
                 attempts |-> <<>>, alternative |-> None]
        ELSE _find_optimal_path_with_rocks(visible_target)
             @@ [no_rocks |-> path, scanned |-> TRUE,
                 visible_target |-> visible_target]

_calculate_next_path ==
    LET target_stick == _find_closest_stick
        nothing == [target_stick |-> None, no_rocks |-> None, scanned |-> FALSE,
                    visible_target |-> None, baseline |-> None,
                    searched |-> FALSE, attempts |-> <<>>, alternative |-> None]
    IN  IF ~_has_valid_state THEN _clear_paths @@ nothing
        ELSE IF target_stick = None THEN _clear_paths @@ nothing
        ELSE _find_and_set_path(target_stick) @@ [target_stick |-> target_stick]

(* ---------------------------------------------------------------------- *)
(* GameWorld, FillManager and the cells' use().  A world w is the record    *)
(* [grid, player, sticks_collected]; random.choice and random.shuffle make  *)
(* an operation yield the set of worlds it may leave.                       *)
(* ---------------------------------------------------------------------- *)
(* config.py: DIFFICULTY = Difficulty.EASY *)
DIFFICULTY == "easy"

(* type(g.get(pos)) for a grid g. *)
TypeIn(g, pos) == IF pos \in DOMAIN g THEN g[pos].type ELSE "NoneType"

(* g[pos] = cell: a dict assignment adds the key when it is missing. *)
SetItem(g, pos, cell) ==
    [q \in DOMAIN g \cup {pos} |-> IF q = pos THEN cell ELSE g[q]]

(* [pos for pos, cell in self.grid.items() if type(cell) == Cell] *)
empty_positions(g) == {pos \in DOMAIN g : g[pos].type = "Cell"}

is_board_full(g) == Cardinality(empty_positions(g)) = 0

_create_grid(g, rock_pos) ==
    [pos \in Pos |-> ~(TypeIn(g, pos) = "Rock" \/ pos = rock_pos)]

_can_move_to(pos, walkable) ==
    /\ 0 <= pos[1] /\ pos[1] < GRID_SIZE
    /\ 0 <= pos[2] /\ pos[2] < GRID_SIZE
    /\ walkable[pos]

(* The cells the recursion of _flood_fill_region adds to region. *)
RECURSIVE FloodFrom(_, _, _)
FloodFrom(region, visited, walkable) ==
    LET more == region \cup
                {q \in Pos \ visited :
                    /\ _can_move_to(q, walkable)
                    /\ \E p \in region :
                           <<q[1] - p[1], q[2] - p[2]>>
                               \in {<<0, 1>>, <<1, 0>>, <<0, -1>>, <<-1, 0>>}}
    IN  IF more = region THEN region ELSE FloodFrom(more, visited, walkable)

_flood_fill_region(pos, visited, walkable) ==
    IF pos \in visited \/ ~_can_move_to(pos, walkable) THEN {}
    ELSE FloodFrom({pos}, visited, walkable)

(* for x in range(GRID_SIZE): for y in range(GRID_SIZE): the i-th position;
   yields the regions found, in order. *)
RECURSIVE RemainingRegionsFrom(_, _, _)
RemainingRegionsFrom(i, visited, walkable) ==
    IF i >= GRID_SIZE * GRID_SIZE THEN <<>>
    ELSE LET pos == <<i \div GRID_SIZE, i % GRID_SIZE>>
             region == _flood_fill_region(pos, visited, walkable)
         IN  IF pos \notin visited /\ _can_move_to(pos, walkable) /\ region # {}
             THEN <<region>> \o RemainingRegionsFrom(i + 1, visited \cup region,
                                                     walkable)
             ELSE RemainingRegionsFrom(i + 1, visited, walkable)

_find_remaining_regions(visited, walkable) ==
    RemainingRegionsFrom(0, visited, walkable)

_find_connected_regions(walkable, start_pos) ==
    LET player_region == _flood_fill_region(start_pos, {}, walkable)
    IN  (IF player_region # {} THEN <<player_region>> ELSE <<>>)
            \o _find_remaining_regions(player_region, walkable)

(* Fault: every position is taken for safe. *)
is_safe_rock_position_anywhere(w, pos) == TRUE

(* world.player is set in every world of the model. *)
is_safe_rock_position(w, pos) ==
    Len(_find_connected_regions(_create_grid(w.grid, pos), w.player.position)) = 1

(* The grids _place_random_rock may leave.  Easy: the first safe position
   of a shuffled list, which may be any safe one; none if none is safe. *)
_place_random_rock(w) ==
    LET empty == empty_positions(w.grid)
        safe == {pos \in empty : is_safe_rock_position(w, pos)}
    IN  IF empty = {} THEN {w.grid}
        ELSE IF DIFFICULTY = "easy"
        THEN IF safe = {} THEN {w.grid}
             ELSE {SetItem(w.grid, pos, Rock(pos)) : pos \in safe}
        ELSE {SetItem(w.grid, rock_pos, Rock(rock_pos)) : rock_pos \in empty}

_place_random_stick(w) ==
    LET empty == empty_positions(w.grid)
    IN  IF empty = {} THEN {w.grid}
        ELSE UNION {_place_random_rock(
                        [w EXCEPT !.grid = SetItem(w.grid, stick_pos, Stick(stick_pos))]) :
                    stick_pos \in empty}

(* Stick.use: _collect_stick, _replace_with_empty_cell, _generate_new_stick. *)
Stick_use(w, pos) ==
    LET collected == [w EXCEPT !.sticks_collected = w.sticks_collected + 1,
                               !.grid = SetItem(w.grid, pos, Cell(pos))]
    IN  {[collected EXCEPT !.grid = g] : g \in _place_random_stick(collected)}

(* Fault: the rock is removed without asking for a stick. *)
Rock_use_unpaid(w, pos) ==
    [w EXCEPT !.sticks_collected = w.sticks_collected - 1,
              !.grid = SetItem(w.grid, pos, Cell(pos))]

(* Rock.use: _can_remove_rock, _remove_rock. *)
Rock_use(w, pos) ==
    IF w.sticks_collected > 0
    THEN [w EXCEPT !.sticks_collected = w.sticks_collected - 1,
                   !.grid = SetItem(w.grid, pos, Cell(pos))]
    ELSE w

(* target_cell.use(world) for the cell at pos; Cell.use and, inherited,
   Player.use do nothing. *)
use(w, pos) ==
    IF TypeIn(w.grid, pos) = "Stick" THEN Stick_use(w, pos)
    ELSE IF TypeIn(w.grid, pos) = "Rock" THEN {Rock_use(w, pos)}
    ELSE {w}

(* ---------------------------------------------------------------------- *)
(* Player.  The grid holds the player object itself, so a change of the     *)
(* player shows in its grid entry.  Times are kept as ages: move_age is     *)
(* time.time() - last_move_time in hundredths of a second, counted up to    *)
(* PLAYER_MOVE_COOLDOWN; one update reads one time.                         *)
(* ---------------------------------------------------------------------- *)
(* config.py: PLAYER_MOVE_COOLDOWN = 0.02 *)
PLAYER_MOVE_COOLDOWN == 2

SetPlayer(w, p) ==
    [w EXCEPT !.player = p,
              !.grid = IF TypeIn(w.grid, w.player.position) = "Player"
                          /\ w.player.position = p.position
                       THEN SetItem(w.grid, p.position, p) ELSE w.grid]

update_facing(w, delta) ==
    IF delta \in {UP, RIGHT, DOWN, LEFT, NONE}
    THEN SetPlayer(w, [w.player EXCEPT !.facing = delta])
    ELSE w

_can_move_now(w) == w.move_age >= PLAYER_MOVE_COOLDOWN

Max(a, b) == IF a > b THEN a ELSE b

Min(a, b) == IF a < b THEN a ELSE b

_calculate_new_position(w, delta) ==
    <<Max(0, Min(GRID_SIZE - 1, w.player.position[1] + delta[1])),
      Max(0, Min(GRID_SIZE - 1, w.player.position[2] + delta[2]))>>

(* Fault: a stick counts as room to move into. *)
_is_valid_move_onto_stick(w, new_pos) ==
    new_pos # w.player.position /\ w.grid[new_pos].type \in {"Cell", "Stick"}

_is_valid_move(w, new_pos) ==
    new_pos # w.player.position /\ w.grid[new_pos].type = "Cell"

(* Fault: the cell left behind is not replaced; the key moved from still
   holds the player, whose position is now the new one. *)
_perform_move_leaving_player(w, new_pos) ==
    LET moved == [w.player EXCEPT !.position = new_pos]
    IN  [w EXCEPT !.grid = SetItem(SetItem(w.grid, w.player.position, moved),
                                   new_pos, moved),
                  !.player = moved,
                  !.move_age = 0]

(* stats.tiles_moved, which nothing reads, is left out. *)
_perform_move(w, new_pos) ==
    LET moved == [w.player EXCEPT !.position = new_pos]
    IN  [w EXCEPT !.grid = SetItem(SetItem(w.grid, w.player.position,
                                           Cell(w.player.position)),
                                   new_pos, moved),
                  !.player = moved,
                  !.move_age = 0]

(* Player.try_move: the world it leaves and whether the player moved. *)
try_move(w, delta) ==
    IF ~_can_move_now(w) THEN [w |-> w, moved |-> FALSE]
    ELSE LET new_pos == _calculate_new_position(w, delta)
         IN  IF _is_valid_move(w, new_pos)
             THEN [w |-> _perform_move(w, new_pos), moved |-> TRUE]
             ELSE [w |-> w, moved |-> FALSE]

(* Player.try_use_facing_cell: the worlds it may leave. *)
try_use_facing_cell(w) ==
    LET target_pos == <<w.player.position[1] + w.player.facing[1],
                        w.player.position[2] + w.player.facing[2]>>
    IN  IF /\ 0 <= target_pos[1] /\ target_pos[1] < GRID_SIZE
           /\ 0 <= target_pos[2] /\ target_pos[2] < GRID_SIZE
           /\ TypeIn(w.grid, target_pos) # "NoneType"
        THEN use(w, target_pos)
        ELSE {w}

(* ---------------------------------------------------------------------- *)
(* PlayerInterface and ActionHandler.  A call that may use a cell yields    *)
(* the set of [w, result]: the worlds it may leave with what it returns.    *)
(* action_age is time.time() - last_action_time, kept as move_age is.       *)
(* ---------------------------------------------------------------------- *)
(* PlayerInterface.try_move *)
PlayerInterface_try_move(w, delta) == try_move(update_facing(w, delta), delta)

(* (px + dx, py + dy): the cell in front of the player. *)
_get_target_position(w) ==
    <<w.player.position[1] + w.player.facing[1],
      w.player.position[2] + w.player.facing[2]>>

(* hasattr(target_cell, 'use') fails only for None. *)
_try_use_target(w, target_pos) ==
    IF TypeIn(w.grid, target_pos) # "NoneType"
    THEN {[w |-> used, result |-> TRUE] : used \in use(w, target_pos)}
    ELSE {[w |-> w, result |-> FALSE]}

try_use_action(w) == _try_use_target(w, _get_target_position(w))

did_use_action(w) ==
    w.last_action_success /\ w.action_age < PLAYER_MOVE_COOLDOWN

(* Fault: the cooldown is not looked at. *)
_can_act_at_once(w) == TRUE

_can_act(w) == w.action_age >= PLAYER_MOVE_COOLDOWN

_is_action_possible(w) ==
    IF is_board_full(w.grid) THEN FALSE
    ELSE IF ~_can_act(w) THEN FALSE
    ELSE TRUE

(* Fault: a rock off the route is accepted too. *)
_can_remove_rock_anywhere(w, target_pos) == w.sticks_collected > 0

_can_remove_rock(w, target_pos) ==
    /\ w.sticks_collected > 0
    /\ \E i \in 1 .. Len(w.handler_path) : w.handler_path[i] = target_pos

_attempt_action(w) ==
    {[w |-> [tried.w EXCEPT !.last_action_success = tried.result,
                            !.action_age = IF tried.result THEN 0
                                           ELSE tried.w.action_age],
      result |-> tried.result] : tried \in try_use_action(w)}

_should_remove_rock(w, target_pos) ==
    IF _can_remove_rock(w, target_pos) THEN _attempt_action(w)
    ELSE {[w |-> w, result |-> FALSE]}

(* Fault: a stick ahead is not taken. *)
_should_use_action_at_rocks_only(w, target_pos) ==
    IF TypeIn(w.grid, target_pos) = "Rock"
    THEN _should_remove_rock(w, target_pos)
    ELSE {[w |-> w, result |-> FALSE]}

_should_use_action_at(w, target_pos) ==
    IF TypeIn(w.grid, target_pos) = "Stick" THEN _attempt_action(w)
    ELSE IF TypeIn(w.grid, target_pos) = "Rock"
    THEN _should_remove_rock(w, target_pos)
    ELSE {[w |-> w, result |-> FALSE]}

(* The player's position and facing are never None or falsy here, so
   _get_target_position always yields a position. *)
should_use_action(w) ==
    IF ~_is_action_possible(w) THEN {[w |-> w, result |-> FALSE]}
    ELSE _should_use_action_at(w, _get_target_position(w))

(* ---------------------------------------------------------------------- *)
(* PathFinder: movement.  plan is what _calculate_next_path yields on the   *)
(* state the call starts from; it is used when the route is empty.          *)
(* ---------------------------------------------------------------------- *)
(* Fault: a step to the right also goes down. *)
_get_movement_direction_diagonal(dx, dy) ==
    IF dx > 0 THEN <<1, 1>>
    ELSE IF dx < 0 THEN LEFT
    ELSE IF dy > 0 THEN DOWN
    ELSE IF dy < 0 THEN UP
    ELSE NONE

_get_movement_direction(dx, dy) ==
    IF dx > 0 THEN RIGHT
    ELSE IF dx < 0 THEN LEFT
    ELSE IF dy > 0 THEN DOWN
    ELSE IF dy < 0 THEN UP
    ELSE NONE

(* Fault: with no waypoint left the agent steps the way it faces. *)
_calculate_movement_ahead(w) ==
    IF w.current_path = <<>>
    THEN LET tried == PlayerInterface_try_move(w, w.player.facing)
         IN  [w |-> tried.w, movement |-> w.player.facing, moved |-> tried.moved]
    ELSE [w |-> w, movement |-> NONE, moved |-> FALSE]

(* Fault: the head waypoint is dropped whether or not the move was made. *)
_calculate_movement_dropping(w) ==
    IF w.current_path = <<>> THEN [w |-> w, movement |-> NONE, moved |-> FALSE]
    ELSE LET next_pos == w.current_path[1]
             current_pos == w.player.position
             movement == _get_movement_direction(next_pos[1] - current_pos[1],
                                                 next_pos[2] - current_pos[2])
             tried == PlayerInterface_try_move(w, movement)
         IN  [w |-> [tried.w EXCEPT !.current_path = Tail(w.current_path)],
              movement |-> movement, moved |-> movement # NONE /\ tried.moved]

(* The world left, the movement returned and whether the player moved. *)
_calculate_movement(w) ==
    IF w.current_path = <<>> THEN [w |-> w, movement |-> NONE, moved |-> FALSE]
    ELSE LET next_pos == w.current_path[1]
             current_pos == w.player.position
             movement == _get_movement_direction(next_pos[1] - current_pos[1],
                                                 next_pos[2] - current_pos[2])
             tried == PlayerInterface_try_move(w, movement)
         IN  IF movement # NONE /\ tried.moved
             THEN [w |-> [tried.w EXCEPT !.current_path = Tail(w.current_path)],
                   movement |-> movement, moved |-> TRUE]
             ELSE [w |-> IF movement # NONE THEN tried.w ELSE w,
                   movement |-> movement, moved |-> FALSE]

get_movement(w, plan) ==
    IF did_use_action(w)
    THEN [w |-> w, movement |-> NONE, moved |-> FALSE, planned |-> FALSE]
    ELSE IF w.current_path = <<>>
    THEN _calculate_movement([w EXCEPT !.current_path = plan.current_path,
                                       !.handler_path = plan.handler_path])
             @@ [planned |-> TRUE]
    ELSE _calculate_movement(w) @@ [planned |-> FALSE]

(* ---------------------------------------------------------------------- *)
(* Player.update with the PathFinder as input_handler's ai_controller:      *)
(* get_movement() is PathFinder.get_movement and use_action() is            *)
(* PathFinder.should_use_action, which hands over to the ActionHandler.     *)
(* An outcome tells the world left and what the calls returned.             *)
(* ---------------------------------------------------------------------- *)
(* if any(delta): self.update_facing(delta); self.try_move(world, delta) *)
MoveOnInput(w, delta) ==
    IF delta # NONE THEN try_move(update_facing(w, delta), delta)
    ELSE [w |-> w, moved |-> FALSE]

(* if use_action(): self.try_use_facing_cell(world) *)
ActOnInput(asked) ==
    IF asked.result THEN try_use_facing_cell(asked.w) ELSE {asked.w}

Player_update(w, plan) ==
    IF w.move_age < PLAYER_MOVE_COOLDOWN
    THEN {[w |-> w, returned_early |-> TRUE]}
    ELSE LET got == get_movement(w, plan)
             again == MoveOnInput(got.w, got.movement)
             facing_pos == _get_target_position(again.w)
         IN  UNION {{[w |-> left, returned_early |-> FALSE,
                      did_use_action |-> did_use_action(w),
                      planned |-> got.planned,
                      plan |-> plan.current_path,
                      route |-> got.w.current_path,
                      movement |-> got.movement,
                      moved |-> got.moved \/ again.moved,
                      target_pos |-> facing_pos,
                      target_cell |-> TypeIn(again.w.grid, facing_pos),
                      on_route |-> \E i \in 1 .. Len(again.w.handler_path) :
                                       again.w.handler_path[i] = facing_pos,
                      sticks_before |-> again.w.sticks_collected,
                      is_action_possible |-> _is_action_possible(again.w),
                      action_age |-> again.w.action_age,
                      should_use_action |-> asked.result,
                      world_kept |-> /\ asked.w.grid = again.w.grid
                                     /\ asked.w.sticks_collected
                                            = again.w.sticks_collected] :
                     left \in ActOnInput(asked)} :
                    asked \in should_use_action(again.w)}

(* Player.update with the keys as input (input_handler.py 13-27 with no
   controller): the worlds it may leave. *)
Player_update_keys(w, delta, space) ==
    IF w.move_age < PLAYER_MOVE_COOLDOWN THEN {w}
    ELSE LET again == MoveOnInput(w, delta)
         IN  IF space THEN try_use_facing_cell(again.w) ELSE {again.w}

(* ---------------------------------------------------------------------- *)
(* The worlds.  GameWorld fills the grid with cells and holds one player    *)
(* and at most one stick; rocks appear as the player moves.  The model      *)
(* starts from the agent in a corner or at the centre (Player's default     *)
(* position), the stick on any other cell or none, and the rocks either     *)
(* scattered (at most MaxRocks of them), a wall across the board, or a      *)
(* ring on every neighbour of the agent.                                    *)
(* ---------------------------------------------------------------------- *)
Starts == {<<0, 0>>, <<GRID_SIZE \div 2, GRID_SIZE \div 2>>}

Neighbours(pos) ==
    {q \in Pos : Abs(q[1] - pos[1]) + Abs(q[2] - pos[2]) = 1}

Walls ==
    {{q \in Pos : q[1] = c} : c \in 0 .. GRID_SIZE - 1}
        \cup {{q \in Pos : q[2] = c} : c \in 0 .. GRID_SIZE - 1}

Layouts(start, sticks) ==
    LET free == Pos \ ({start} \cup sticks)
    IN  {rocks \in SUBSET free : Cardinality(rocks) <= MaxRocks}
            \cup {wall \in Walls : wall \subseteq free}
            \cup {ring \in {Neighbours(start)} : ring \subseteq free}

MakeGrid(start, sticks, rocks) ==
    [pos \in Pos |-> IF pos = start THEN Player(pos)
                     ELSE IF pos \in sticks THEN Stick(pos)
                     ELSE IF pos \in rocks THEN Rock(pos)
                     ELSE Cell(pos)]

NoCall == [op |-> "none"]

(* The sticks and the rocks a planner would find on the grid. *)
ObservationOf(g) ==
    [sticks |-> {pos \in DOMAIN g : g[pos].type = "Stick"},
     rocks |-> {pos \in DOMAIN g : g[pos].type = "Rock"}]

Observation == ObservationOf(grid)

(* A world with the PathFinder just built on it, before its first plan. *)
Built(collected) ==
    \E start \in Starts :
        \E sticks \in {{}} \cup {{stick} : stick \in Pos \ {start}} :
            \E rocks \in Layouts(start, sticks) :
                /\ grid = MakeGrid(start, sticks, rocks)
                /\ player = Player(start)
                /\ sticks_collected \in collected
                /\ current_path = <<>>
                /\ handler_path = <<>>
                /\ last_movement = NONE
                /\ call = NoCall
                /\ raised = None
                /\ move_age = PLAYER_MOVE_COOLDOWN
                /\ action_age = PLAYER_MOVE_COOLDOWN
                /\ last_action_success = FALSE
                /\ observed = Observation
                /\ frame = 0

Init == Built(0 .. MaxRocks)

(* Stats as constructed: no stick collected yet. *)
InitSearch == Built({0})

(* GameWorld.__post_init__: every cell empty, then _place_random_stick.
   world.player is still None, so is_safe_rock_position refuses every
   position (fill_manager.py 15-16) and _place_random_rock leaves the grid
   without a rock.  The grids construction may leave. *)
GameWorld ==
    {SetItem([pos \in Pos |-> Cell(pos)], stick_pos, Stick(stick_pos)) :
        stick_pos \in Pos}

(* Player(): position (GRID_SIZE // 2, GRID_SIZE // 2), facing DOWN. *)
NewPlayer == Player(<<GRID_SIZE \div 2, GRID_SIZE \div 2>>)

(* GameWorld.add: self.grid[cell.position] = cell *)
add(g, cell) == SetItem(g, cell.position, cell)

(* Game._setup_window: world.player = player; world.stats = stats;
   world.add(player). *)
_setup_window(g) == add(g, NewPlayer)

(* The game as Game._initialize_game leaves it, before any controller is
   configured. *)
InitGame ==
    /\ grid \in {_setup_window(g) : g \in GameWorld}
    /\ player = NewPlayer
    /\ sticks_collected = 0
    /\ current_path = <<>>
    /\ handler_path = <<>>
    /\ last_movement = NONE
    /\ call = NoCall
    /\ raised = None
    /\ move_age = PLAYER_MOVE_COOLDOWN
    /\ action_age = PLAYER_MOVE_COOLDOWN
    /\ last_action_success = FALSE
    /\ observed = Observation
    /\ frame = 0

(* A game in progress on the easy difficulty: the player anywhere, the
   stick anywhere else, and at most MaxPlaced rocks that leave the cells
   without a rock in one piece. *)
InPlay ==
    UNION {UNION {{MakeGrid(start, {stick}, rocks) :
                      rocks \in {r \in SUBSET (Pos \ {start, stick}) :
                                    /\ Cardinality(r) <= MaxPlaced
                                    /\ Len(_find_connected_regions(
                                           [pos \in Pos |-> pos \notin r],
                                           start)) = 1}} :
                  stick \in Pos \ {start}} :
           start \in Pos}

InitPlay ==
    /\ grid \in InPlay
    /\ player \in {grid[pos] : pos \in {q \in Pos : grid[q].type = "Player"}}
    /\ sticks_collected \in 0 .. MaxRocks
    /\ current_path = <<>>
    /\ handler_path = <<>>
    /\ last_movement = NONE
    /\ call = NoCall
    /\ raised = None
    /\ move_age = PLAYER_MOVE_COOLDOWN
    /\ action_age = PLAYER_MOVE_COOLDOWN
    /\ last_action_success = FALSE
    /\ observed = Observation
    /\ frame = 0

(* ---------------------------------------------------------------------- *)
(* The calls.  A search reads the world and changes nothing; the model      *)
(* observes one search per behaviour, made on the world as constructed.     *)
(* The planner may run again on the state it has left.                      *)
(* ---------------------------------------------------------------------- *)
(* The goals searched for: the stick, every rock and the agent's own cell.
   Neither search tells a plain cell from a stick, and the stick is placed on
   every cell in turn. *)
Targets == {pos \in Pos : TypeOf(pos) \in {"Stick", "Rock", "Player"}}

BreadthFirstSearchWithRocks ==
    \E target_pos \in Targets, max_rocks \in 0 .. MaxRocks :
        /\ call = NoCall
        /\ call' = [op |-> "breadth_first_search_with_rocks",
                    start |-> player.position, target_pos |-> target_pos,
                    max_rocks |-> max_rocks,
                    result |-> breadth_first_search_with_rocks(
                                   player.position, target_pos, max_rocks)]
        /\ UNCHANGED <<grid, player, sticks_collected, current_path, handler_path,
                       last_movement, raised,
                       move_age, action_age, last_action_success, observed,
                       frame>>

BreadthFirstSearchNoRocks ==
    \E target_pos \in Targets :
        /\ call = NoCall
        /\ call' = [op |-> "breadth_first_search_no_rocks",
                    start |-> player.position, target_pos |-> target_pos,
                    result |-> breadth_first_search_no_rocks(
                                   player.position, target_pos)]
        /\ UNCHANGED <<grid, player, sticks_collected, current_path, handler_path,
                       last_movement, raised,
                       move_age, action_age, last_action_success, observed,
                       frame>>

FindPathWithMaxRocks ==
    \E target_pos \in Targets, max_rocks \in 0 .. MaxRocks :
        /\ call = NoCall
        /\ call' = [op |-> "find_path_with_max_rocks",
                    start |-> player.position, target_pos |-> target_pos,
                    max_rocks |-> max_rocks,
                    result |-> find_path_with_max_rocks(max_rocks, target_pos)]
        /\ UNCHANGED <<grid, player, sticks_collected, current_path, handler_path,
                       last_movement, raised,
                       move_age, action_age, last_action_success, observed,
                       frame>>

(* The positions asked about from outside: the grid and the ring of
   positions one step off it. *)
Probes == (-1 .. GRID_SIZE) \X (-1 .. GRID_SIZE)

GetValidNeighbors ==
    \E pos \in Probes :
        /\ call = NoCall
        /\ call' = [op |-> "get_valid_neighbors", pos |-> pos,
                    result |-> get_valid_neighbors(pos)]
        /\ UNCHANGED <<grid, player, sticks_collected, current_path, handler_path,
                       last_movement, raised,
                       move_age, action_age, last_action_success, observed,
                       frame>>

(* A search from the agent's cell for a goal the grid does not hold. *)
SearchOffGrid ==
    \E target_pos \in Probes \ Pos, max_rocks \in 0 .. MaxRocks,
       search \in {"breadth_first_search_with_rocks",
                   "breadth_first_search_no_rocks", "find_path_to_position"} :
        /\ call = NoCall
        /\ call' = [op |-> "search off grid", search |-> search,
                    start |-> player.position, target_pos |-> target_pos,
                    max_rocks |-> max_rocks,
                    result |->
                      CASE search = "breadth_first_search_with_rocks" ->
                             breadth_first_search_with_rocks(
                                 player.position, target_pos, max_rocks)
                        [] search = "breadth_first_search_no_rocks" ->
                             breadth_first_search_no_rocks(
                                 player.position, target_pos)
                        [] OTHER -> find_path_to_position(target_pos)]
        /\ UNCHANGED <<grid, player, sticks_collected, current_path, handler_path,
                       last_movement, raised,
                       move_age, action_age, last_action_success, observed,
                       frame>>

NextNeighbours == GetValidNeighbors \/ SearchOffGrid

SpecNeighbours == Init /\ [][NextNeighbours]_vars

(* Fault: the rocks on the route committed are taken off the grid. *)
CalculateNextPathClearingRocks ==
    /\ call.op \in {"none", "_calculate_next_path"}
    /\ raised = None
    /\ \E outcome \in {_calculate_next_path} :
        /\ current_path' = outcome.current_path
        /\ handler_path' = outcome.handler_path
        /\ raised' = outcome.raised
        /\ grid' = [pos \in DOMAIN grid |->
                       IF is_rock(pos)
                          /\ \E i \in 1 .. Len(outcome.handler_path) :
                                 outcome.handler_path[i] = pos
                       THEN Cell(pos) ELSE grid[pos]]
        /\ call' = [op |-> "_calculate_next_path", previous |-> call.op,
                    committed_before |-> handler_path,
                    target_stick |-> outcome.target_stick,
                    no_rocks |-> outcome.no_rocks,
                    scanned |-> outcome.scanned,
                    visible_target |-> outcome.visible_target,
                    searched |-> outcome.searched,
                    baseline |-> outcome.baseline,
                    attempts |-> outcome.attempts,
                    alternative |-> outcome.alternative]
    /\ observed' = Observation
    /\ UNCHANGED <<player, sticks_collected, last_movement,
                   move_age, action_age, last_action_success, frame>>

CalculateNextPath ==
    /\ call.op \in {"none", "_calculate_next_path"}
    /\ raised = None
    /\ \E outcome \in {_calculate_next_path} :
        /\ current_path' = outcome.current_path
        /\ handler_path' = outcome.handler_path
        /\ raised' = outcome.raised
        /\ call' = [op |-> "_calculate_next_path", previous |-> call.op,
                    committed_before |-> handler_path,
                    target_stick |-> outcome.target_stick,
                    no_rocks |-> outcome.no_rocks,
                    scanned |-> outcome.scanned,
                    visible_target |-> outcome.visible_target,
                    searched |-> outcome.searched,
                    baseline |-> outcome.baseline,
                    attempts |-> outcome.attempts,
                    alternative |-> outcome.alternative]
    /\ observed' = Observation
    /\ UNCHANGED <<grid, player, sticks_collected, last_movement,
                   move_age, action_age, last_action_success, frame>>

(* The planner and the PathCalculator interface it calls, with any number
   of sticks collected. *)
Next ==
    \/ FindPathWithMaxRocks
    \/ CalculateNextPath

Spec == Init /\ [][Next]_vars

(* The two searches, and the planner, with no stick collected. *)
NextSearch ==
    \/ BreadthFirstSearchWithRocks
    \/ BreadthFirstSearchNoRocks
    \/ CalculateNextPath

SpecSearch == InitSearch /\ [][NextSearch]_vars

(* Every route computation, with any number of sticks collected. *)
NextRoutes ==
    \/ BreadthFirstSearchWithRocks
    \/ BreadthFirstSearchNoRocks
    \/ FindPathWithMaxRocks
    \/ CalculateNextPath

SpecRoutes == Init /\ [][NextRoutes]_vars
(* ---------------------------------------------------------------------- *)
(* The game.  PathFinder(world) plans once on construction; the loop then   *)
(* calls world.update(), which updates the one cell that does anything,     *)
(* the player, with the PathFinder answering for the keyboard; the clock    *)
(* advances between the frames.  Every clock reading within one update      *)
(* is taken as the same instant.                                            *)
(* ---------------------------------------------------------------------- *)
State ==
    [grid |-> grid, player |-> player, sticks_collected |-> sticks_collected,
     current_path |-> current_path, handler_path |-> handler_path,
     move_age |-> move_age, action_age |-> action_age,
     last_action_success |-> last_action_success]

(* PathFinder.__post_init__ *)
Construct ==
    /\ call = NoCall
    /\ CalculateNextPath

(* get_movement plans when no action was just used and no waypoint is left. *)
Plans ==
    /\ move_age >= PLAYER_MOVE_COOLDOWN
    /\ ~did_use_action(State)
    /\ current_path = <<>>

Kept == [current_path |-> current_path, handler_path |-> handler_path,
         raised |-> None]

(* The last update found no stick on the grid, or planned and was left
   without a step to take. *)
Stalled ==
    /\ call.op = "update"
    /\ ~call.returned_early
    /\ \/ call.before.observation.sticks = {}
       \/ call.planned /\ call.plan = <<>>

(* world.update() updates every cell of the grid and only the player's
   update does anything.  A player that has just moved to a cell later in
   the grid's order is updated again in the same frame; that second update
   is one more Tick, which returns at the cooldown check. *)
TickOn(next_frame) ==
    /\ call.op \in {"_calculate_next_path", "update"}
    /\ raised = None
    /\ \E plan \in {IF Plans THEN _calculate_next_path ELSE Kept} :
         IF plan.raised # None
         THEN /\ raised' = plan.raised
              /\ call' = [op |-> "update raised"]
              /\ UNCHANGED <<grid, player, sticks_collected, current_path,
                             handler_path, last_movement, move_age, action_age,
                             last_action_success, observed>>
              /\ frame' = next_frame
         ELSE \E outcome \in Player_update(State, plan) :
                /\ outcome.w.sticks_collected <= MaxSticks
                /\ grid' = outcome.w.grid
                /\ player' = outcome.w.player
                /\ sticks_collected' = outcome.w.sticks_collected
                /\ current_path' = outcome.w.current_path
                /\ handler_path' = outcome.w.handler_path
                /\ move_age' = outcome.w.move_age
                /\ action_age' = outcome.w.action_age
                /\ last_action_success' = outcome.w.last_action_success
                /\ observed' = IF ~outcome.returned_early /\ outcome.planned
                               THEN Observation ELSE observed
                /\ frame' = next_frame
                /\ call' = [field \in {"op", "before"}
                                       \cup (DOMAIN outcome \ {"w"}) |->
                              IF field = "op" THEN "update"
                              ELSE IF field = "before"
                              THEN [position |-> player.position,
                                    sticks_collected |-> sticks_collected,
                                    current_path |-> current_path,
                                    observation |-> Observation,
                                    observed |-> observed,
                                    stalled |-> Stalled]
                              ELSE outcome[field]]
                /\ UNCHANGED <<last_movement, raised>>

(* A frame of the loop, counted. *)
Tick ==
    /\ frame < MaxFrames
    /\ TickOn(frame + 1)

(* The loop has a frame to run and the handler has accepted no action yet. *)
TickDue ==
    /\ call.op \in {"_calculate_next_path", "update"}
    /\ raised = None
    /\ ~last_action_success

(* A frame of the loop while the handler has accepted no action yet: the
   game watched up to its first interaction.  frame keeps the parity of the
   frames run, so that no frame leaves every variable as it was. *)
TickFirst ==
    /\ TickDue
    /\ TickOn(1 - frame)

(* The clock advances before the next frame, or the next call. *)
Elapse ==
    /\ call.op \in {"_calculate_next_path", "update", "try_move", "key update"}
    /\ raised = None
    /\ move_age < PLAYER_MOVE_COOLDOWN \/ action_age < PLAYER_MOVE_COOLDOWN
    /\ \E dt \in 1 .. PLAYER_MOVE_COOLDOWN :
        /\ move_age' = Min(move_age + dt, PLAYER_MOVE_COOLDOWN)
        /\ action_age' = Min(action_age + dt, PLAYER_MOVE_COOLDOWN)
    /\ UNCHANGED <<grid, player, sticks_collected, current_path, handler_path,
                   last_movement, call, raised, last_action_success, observed,
                   frame>>

NextGame ==
    \/ Construct
    \/ Tick
    \/ Elapse

SpecGame == Init /\ [][NextGame]_vars

NextLive ==
    \/ Construct
    \/ TickFirst
    \/ Elapse

(* The loop keeps running (game.py 92-95) and the clock keeps advancing:
   weak fairness of Elapse, of Construct and of TickFirst.  For the last two
   the condition is written out, with the guard in place of ENABLED:
   Construct is enabled exactly when no call was made and always sets call;
   TickFirst is enabled exactly when TickDue holds and is the one action
   that changes frame. *)
SpecLive ==
    /\ InitSearch
    /\ [][NextLive]_vars
    /\ WF_vars(Elapse)
    /\ []<>(call # NoCall) \/ []<><<call = NoCall /\ call' # NoCall>>_vars
    /\ []<>(~TickDue) \/ []<><<frame' # frame>>_vars

(* ---------------------------------------------------------------------- *)
(* The action interface called directly: PlayerInterface.try_move with any  *)
(* direction, any number of times, on a world with no stick collected.      *)
(* ---------------------------------------------------------------------- *)
Deltas == {UP, RIGHT, DOWN, LEFT, NONE}

TryMove ==
    /\ call.op \in {"none", "try_move"}
    /\ raised = None
    /\ \E delta \in Deltas :
         \E outcome \in {PlayerInterface_try_move(State, delta)} :
            /\ grid' = outcome.w.grid
            /\ player' = outcome.w.player
            /\ move_age' = outcome.w.move_age
            /\ call' = [op |-> "try_move", delta |-> delta,
                        before |-> [grid |-> grid, position |-> player.position,
                                    move_age |-> move_age],
                        result |-> outcome.moved]
    /\ UNCHANGED <<sticks_collected, current_path, handler_path, last_movement,
                   raised, action_age, last_action_success, observed, frame>>

(* World.update with no controller set: Player.update reads the keys.
   delta is what _get_keyboard_movement returns and space what
   _check_space_pressed returns.  The model observes one update per
   behaviour. *)
KeyUpdate ==
    /\ call = NoCall
    /\ raised = None
    /\ \E delta \in Deltas, space \in BOOLEAN :
         \E left \in Player_update_keys(State, delta, space) :
            /\ grid' = left.grid
            /\ player' = left.player
            /\ sticks_collected' = left.sticks_collected
            /\ move_age' = left.move_age
            /\ call' = [op |-> "key update", delta |-> delta, space |-> space,
                        target_pos |-> _get_target_position(left),
                        before |-> [grid |-> grid,
                                    position |-> player.position,
                                    sticks_collected |-> sticks_collected]]
    /\ UNCHANGED <<current_path, handler_path, last_movement, raised,
                   action_age, last_action_success, observed, frame>>

(* The game played by hand. *)
NextPlay ==
    \/ KeyUpdate
    \/ Elapse

(* From a game in progress. *)
SpecPlay == InitPlay /\ [][NextPlay]_vars

(* From the game as set up. *)
SpecSetup == InitGame /\ [][NextPlay]_vars

NextMoves ==
    \/ TryMove
    \/ Elapse

SpecMoves == InitSearch /\ [][NextMoves]_vars



(* ---------------------------------------------------------------------- *)
(* What the properties are stated with: the rocks on a route, its cost,     *)
(* and reachability computed from the grid alone.                           *)
(* ---------------------------------------------------------------------- *)
RocksOn(path) == Cardinality({i \in 1 .. Len(path) : TypeOf(path[i]) = "Rock"})

Cost(path) == STICK_VALUE * RocksOn(path) + Len(path)

Manhattan(a, b) == Abs(a[1] - b[1]) + Abs(a[2] - b[2])

RockCells == {pos \in Pos : TypeOf(pos) = "Rock"}

WellFormed(path, start, target_pos) ==
    /\ Len(path) >= 1
    /\ path[1] = start
    /\ path[Len(path)] = target_pos
    /\ \A i \in 1 .. Len(path) : path[i] \in Pos
    /\ \A i \in 1 .. Len(path) - 1 :
           <<path[i + 1][1] - path[i][1], path[i + 1][2] - path[i][2]>>
               \in {UP, RIGHT, DOWN, LEFT}

(* The number of steps after which target_pos is first among the cells
   reached, spreading from the set reached (at step n) along cells that are
   not rocks; -1 if it never is. *)
RECURSIVE Spread(_, _, _)
Spread(reached, n, target_pos) ==
    IF target_pos \in reached THEN n
    ELSE LET more == reached \cup {q \in Pos \ RockCells :
                                    \E p \in reached : Manhattan(p, q) = 1}
         IN  IF more = reached THEN -1 ELSE Spread(more, n + 1, target_pos)

(* The breadth-first distance through cells that are not rocks; -1 if none. *)
RockFreeDistance(start, target_pos) == Spread({start}, 0, target_pos)

(* The cells reached from the set cells without entering a further rock. *)
RECURSIVE Closure(_)
Closure(cells) ==
    LET more == cells \cup {q \in Pos \ RockCells :
                               \E p \in cells : Manhattan(p, q) = 1}
    IN  IF more = cells THEN cells ELSE Closure(more)

(* The cells reached from the set cells by entering at most k further
   rock cells. *)
RECURSIVE Widen(_, _)
Widen(cells, k) ==
    IF k = 0 THEN cells
    ELSE Widen(Closure(cells \cup {q \in RockCells :
                                      \E p \in cells : Manhattan(p, q) = 1}),
               k - 1)

(* The cells reached from start by entering at most k rock cells. *)
Layer(start, k) == Widen(Closure({start}), k)

(* Every neighbour of the agent inside the grid holds a rock. *)
Enclosed == Neighbours(player.position) \subseteq RockCells

Planned == call.op = "_calculate_next_path"

(* The routes a planning run found: by the search that avoids rocks, by the
   baseline search and by the budgeted attempts. *)
Candidates ==
    (IF call.no_rocks # None THEN {call.no_rocks} ELSE {})
        \cup (IF call.baseline # None THEN {call.baseline} ELSE {})
        \cup {call.attempts[i].path :
                 i \in {j \in 1 .. Len(call.attempts) : call.attempts[j].path # None}}

(* ---------------------------------------------------------------------- *)
(* Properties                                                               *)
(* ---------------------------------------------------------------------- *)

(* C1: any route that find_path_with_max_rocks(max_rocks, target) returns
   holds at most max_rocks rock cells. *)
C1_RouteWithinBudget ==
    (call.op = "find_path_with_max_rocks" /\ call.result # None)
        => RocksOn(call.result) <= call.max_rocks

(* C2: when the goal can be reached from the start along cells that are not
   rocks, the search that avoids rocks returns a route with no rock on it
   whose number of steps is the breadth-first distance; on a grid without
   rocks that distance is the Manhattan distance. *)
C2_NoRocksRouteIsShortest ==
    (/\ call.op = "breadth_first_search_no_rocks"
     /\ RockFreeDistance(call.start, call.target_pos) >= 0)
        => /\ call.result # None
           /\ RocksOn(call.result) = 0
           /\ Len(call.result) - 1 = RockFreeDistance(call.start, call.target_pos)
           /\ (RockCells = {}
                  => Len(call.result) - 1 = Manhattan(call.start, call.target_pos))

(* A route that had to go round a rock. *)
C2_Witness ==
    /\ call.op = "breadth_first_search_no_rocks"
    /\ call.result # None
    /\ Len(call.result) - 1 > Manhattan(call.start, call.target_pos)

(* C3: a route returned by either search starts at the agent's position,
   ends at the goal asked for, stays inside the grid, and moves one step in
   one of the four directions at a time. *)
C3_RouteWellFormed ==
    (/\ call.op \in {"breadth_first_search_with_rocks",
                     "breadth_first_search_no_rocks"}
     /\ call.result # None)
        => WellFormed(call.result, player.position, call.target_pos)

(* A route of the budgeted search that crosses a rock. *)
C3_Witness ==
    /\ call.op = "breadth_first_search_with_rocks"
    /\ call.result # None
    /\ Len(call.result) >= 3
    /\ RocksOn(call.result) >= 1

(* C4: a planning run that follows a planning run, nothing else having
   changed, returns and commits the route the first one committed. *)
C4_PlanningIdempotent ==
    (Planned /\ call.previous = "_calculate_next_path")
        => /\ raised = None
           /\ handler_path = call.committed_before

(* C5: if the budgeted search returns a route for a budget, it returns one
   for every larger budget, and that one is no longer. *)
C5_MonotoneInBudget ==
    (call.op = "breadth_first_search_with_rocks" /\ call.result # None)
        => \A k2 \in call.max_rocks .. MaxRocks :
               LET wider == breadth_first_search_with_rocks(
                                call.start, call.target_pos, k2)
               IN  wider # None /\ Len(wider) <= Len(call.result)

(* A larger budget that gives a strictly shorter route. *)
C5_Witness ==
    /\ call.op = "breadth_first_search_with_rocks"
    /\ call.result # None
    /\ call.max_rocks < MaxRocks
    /\ Len(breadth_first_search_with_rocks(call.start, call.target_pos, MaxRocks))
           < Len(call.result)

(* C6: the budgeted search with budget 0 and the search that avoids rocks
   return the same: the same route, or None both. *)
C6_ZeroBudgetIsNoRocks ==
    /\ call.op = "breadth_first_search_no_rocks"
           => call.result = breadth_first_search_with_rocks(
                                call.start, call.target_pos, 0)
    /\ (call.op = "breadth_first_search_with_rocks" /\ call.max_rocks = 0)
           => call.result = breadth_first_search_no_rocks(
                                call.start, call.target_pos)

(* A budget-0 route round a rock, where more than one shortest route exists. *)
C6_Witness ==
    /\ call.op = "breadth_first_search_with_rocks"
    /\ call.max_rocks = 0
    /\ call.result # None
    /\ Len(call.result) - 1 > Manhattan(call.start, call.target_pos)

(* C7: when the chosen stick can be reached along cells that are not rocks,
   the planner commits the route of the search that avoids rocks, a shortest
   one with no rock on it, and runs neither the scan nor a budgeted search. *)
C7_RockFreeRouteCommitted ==
    (/\ Planned
     /\ call.target_stick # None
     /\ RockFreeDistance(player.position, call.target_stick) >= 0)
        => /\ raised = None
           /\ handler_path = breadth_first_search_no_rocks(player.position,
                                                            call.target_stick)
           /\ current_path = Tail(handler_path)
           /\ RocksOn(handler_path) = 0
           /\ Len(handler_path) - 1
                  = RockFreeDistance(player.position, call.target_stick)
           /\ ~call.scanned
           /\ ~call.searched
           /\ call.attempts = <<>>

(* A stick reached round a rock that a collected stick could have removed. *)
C7_Witness ==
    /\ Planned
    /\ call.target_stick # None
    /\ sticks_collected >= 1
    /\ RockFreeDistance(player.position, call.target_stick)
           > Manhattan(player.position, call.target_stick)
    /\ Len(current_path) >= 3

(* C8: the route a planning run commits is one of the routes it found and
   none of those costs less (STICK_VALUE for each rock on the route plus the
   route's length); when it found none, the committed route is empty. *)
C8_LowestCostCommitted ==
    (Planned /\ raised = None)
        => /\ current_path = SubSeq(handler_path, 2, Len(handler_path))
           /\ IF Candidates = {} THEN handler_path = <<>>
              ELSE /\ handler_path \in Candidates
                   /\ \A route \in Candidates : Cost(handler_path) <= Cost(route)

(* A run that went through the baseline and a budgeted attempt and committed
   a route across a rock. *)
C8_Witness ==
    /\ Planned
    /\ raised = None
    /\ call.baseline # None
    /\ Len(call.attempts) >= 1
    /\ RocksOn(handler_path) >= 1

(* C9: the score the binary search gives a route returned for a budget is
   STICK_VALUE times the rocks on that route, plus its length. *)
C9_ScoreCountsRocksOnRoute ==
    Planned
        => \A i \in 1 .. Len(call.attempts) :
               call.attempts[i].path # None
                   => call.attempts[i].score = Fin(Cost(call.attempts[i].path))

(* C10: when the goal cannot be reached by entering at most max_rocks rock
   cells, the budgeted search returns None; an agent with a rock on every
   neighbouring cell and no stick collected is left, by a planning run that
   returns, with no step to follow: the route to follow is empty and no
   search found a route that leaves the agent's cell. *)
C10_NoRouteWhenOutOfReach ==
    /\ (/\ call.op = "breadth_first_search_with_rocks"
        /\ call.target_pos \notin Layer(call.start, call.max_rocks))
           => (call.result = None /\ raised = None)
    /\ (Planned /\ Enclosed /\ sticks_collected = 0)
           => /\ raised = None
              /\ current_path = <<>>
              /\ handler_path \in {<<>>, <<player.position>>}
              /\ Candidates \subseteq {<<player.position>>}

(* An enclosed agent whose planner scanned, searched for the place it chose
   and found no route. *)
C10_Witness ==
    /\ Planned
    /\ Enclosed
    /\ sticks_collected = 0
    /\ call.target_stick # None
    /\ call.searched
    /\ call.baseline = None

(* C20: a position the visibility scan returns lies inside the grid and at
   Manhattan distance at most VIEW_RADIUS from the agent. *)
C20_VisibleTargetInView ==
    (Planned /\ call.scanned /\ call.visible_target # None)
        => /\ call.visible_target \in Pos
           /\ _is_in_bounds(call.visible_target)
           /\ Manhattan(player.position, call.visible_target) <= VIEW_RADIUS

(* A scan for a stick out of view that returned a place short of it. *)
C20_Witness ==
    /\ Planned
    /\ call.scanned
    /\ call.visible_target # None
    /\ call.visible_target # call.target_stick
    /\ Manhattan(player.position, call.target_stick) > VIEW_RADIUS

(* C19: every step of a behaviour made of route computations (either
   search, a search through the PathCalculator interface, or a planning run
   with its scan and scoring) leaves every grid cell, the agent's position
   and facing and the number of sticks collected as they were. *)
C19_RouteComputationReadsOnly ==
    [][UNCHANGED <<grid, player, sticks_collected>>]_vars

(* A planning run whose searches entered a rock and which left the rock in
   place on the route it committed. *)
C19_Witness ==
    /\ Planned
    /\ raised = None
    /\ call.searched
    /\ \E i \in 1 .. Len(handler_path) : grid[handler_path[i]] = Rock(handler_path[i])


(* ---------------------------------------------------------------------- *)
(* The game: what an update of the player leaves and returns.               *)
(* ---------------------------------------------------------------------- *)
(* The last call was Player.update and it went past the move cooldown. *)
Updated == call.op = "update" /\ ~call.returned_early

(* C18: after construction and after any moves, stick collections, rock
   placements and rock removals, the grid has one entry for every position
   on the board, none for any other position, and every entry stores the
   position it is kept under. *)
C18_OneCellPerPosition ==
    /\ DOMAIN grid = Pos
    /\ \A pos \in DOMAIN grid : grid[pos].position = pos

(* The player has moved and collected a stick, and a rock was placed. *)
C18_Witness ==
    /\ Updated
    /\ call.moved
    /\ sticks_collected > call.before.sticks_collected
    /\ Observation.rocks # call.before.observation.rocks
    /\ C18_OneCellPerPosition


(* C15: whatever state it is called in, PathFinder.get_movement returns a
   pair (dx, dy) with dx and dy in {-1, 0, 1} and at most one of the two
   other than zero. *)
C15_MovementIsCardinalStep ==
    Updated
        => /\ call.movement \in (-1 .. 1) \X (-1 .. 1)
           /\ call.movement[1] = 0 \/ call.movement[2] = 0

(* get_movement returned a step to the right along a route. *)
C15_Witness ==
    /\ Updated
    /\ call.movement = RIGHT
    /\ call.moved


(* C11: ActionHandler.should_use_action accepts an action on a rock only if
   the rock is the cell directly ahead of the agent, at least one stick is
   collected and the rock's position is on the committed route; it accepts
   on a stick ahead whenever an action is possible; with any other cell
   ahead, or none, it returns False; with no stick collected it returns
   False when facing a rock. *)
C11_ActionAcceptedOnTarget ==
    Updated
        => /\ call.should_use_action
                => \/ call.target_cell = "Stick"
                   \/ /\ call.target_cell = "Rock"
                      /\ call.sticks_before >= 1
                      /\ call.on_route
           /\ (call.target_cell = "Stick" /\ call.is_action_possible)
                => call.should_use_action
           /\ call.target_cell \notin {"Stick", "Rock"}
                => ~call.should_use_action
           /\ (call.target_cell = "Rock" /\ call.sticks_before = 0)
                => ~call.should_use_action

(* An action on a rock ahead was accepted. *)
C11_Witness ==
    /\ Updated
    /\ call.target_cell = "Rock"
    /\ call.should_use_action

(* A rock ahead with no stick collected, and a rock ahead off the route with
   a stick collected, were both turned down while an action was possible. *)
C11_RockTurnedDown ==
    /\ Updated
    /\ call.target_cell = "Rock"
    /\ call.is_action_possible
    /\ ~call.should_use_action
    /\ call.sticks_before = 0

C11_RockOffRouteTurnedDown ==
    /\ Updated
    /\ call.target_cell = "Rock"
    /\ call.is_action_possible
    /\ ~call.should_use_action
    /\ call.sticks_before >= 1
    /\ ~call.on_route


(* C12: a call to ActionHandler.should_use_action leaves the grid cells and
   sticks_collected as they were before the call, whether it returns True
   or False; it changes only the handler's recorded outcome and time. *)
C12_ShouldUseActionKeepsWorld ==
    Updated => call.world_kept

(* C13: in a single update of the AI-controlled player the agent never both
   moves to a new cell and performs a cell interaction. *)
C13_MoveOrInteract ==
    Updated => ~(call.moved /\ call.should_use_action /\ ~call.world_kept)


(* C14: while less than PLAYER_MOVE_COOLDOWN has passed since the last
   successful action, ActionHandler.should_use_action returns False and
   performs no interaction, so two accepted actions are at least one
   cooldown apart. *)
C14_NoActionWithinCooldown ==
    (Updated /\ call.action_age < PLAYER_MOVE_COOLDOWN)
        => /\ ~call.should_use_action
           /\ call.world_kept

(* Within the cooldown of a collection, a stick ahead on a board with room
   left was turned down. *)
C14_Witness ==
    /\ Updated
    /\ call.action_age < PLAYER_MOVE_COOLDOWN
    /\ call.target_cell = "Stick"
    /\ ~is_board_full(grid)
    /\ ~call.should_use_action
    /\ sticks_collected >= 1


(* C17: when no stick is on the grid, or when planning leaves no route to
   follow, get_movement returns (0, 0), the agent stays where it is, no
   exception is raised, and the next update plans again. *)
C17_StallsAndRetries ==
    /\ Stalled
        => /\ call.movement = NONE
           /\ ~call.moved
           /\ player.position = call.before.position
           /\ raised = None
           /\ current_path = <<>>
    /\ (Updated /\ call.before.stalled) => call.planned

(* A stick out of reach: two updates in a row planned and found no route. *)
C17_Witness ==
    /\ Stalled
    /\ call.before.stalled
    /\ call.planned
    /\ call.before.observation.sticks # {}
    /\ call.movement = NONE

(* No stick on the grid: two updates in a row stalled. *)
C17_NoStickStalls ==
    /\ Stalled
    /\ call.before.stalled
    /\ call.before.observation.sticks = {}
    /\ call.planned


(* C16: whenever the stick positions or the rock positions differ from what
   they were when the committed route was planned, the agent plans again
   from the current grid before it takes another step along the route. *)
C16_ReplansOnChange ==
    (Updated /\ call.moved
        /\ call.before.observation # call.before.observed)
        => call.planned


(* C21: the visibility scan returns None when no valid position is in
   range, in particular when every neighbour of the agent holds a rock. *)
C21_ScanNoneWhenEnclosed ==
    (Planned /\ call.scanned /\ Enclosed) => call.visible_target = None


(* ---------------------------------------------------------------------- *)
(* The action interface: what try_move leaves and returns.                  *)
(* ---------------------------------------------------------------------- *)
TriedMove == call.op = "try_move"

(* The cell try_move was aimed at, on the grid or not. *)
MoveTarget ==
    <<call.before.position[1] + call.delta[1],
      call.before.position[2] + call.delta[2]>>

(* The target is off the grid or holds anything but an empty cell. *)
MoveBlocked ==
    \/ MoveTarget \notin Pos
    \/ call.before.grid[MoveTarget].type # "Cell"

(* Every cell is of the class it was, and the agent is where it was. *)
MoveLeftWorld ==
    /\ player.position = call.before.position
    /\ DOMAIN grid = DOMAIN call.before.grid
    /\ \A pos \in DOMAIN grid :
        /\ grid[pos].type = call.before.grid[pos].type
        /\ grid[pos].position = call.before.grid[pos].position

(* The agent's old cell is an empty cell, the target holds the agent and
   every other cell is as it was. *)
MoveRelocated ==
    /\ player.position = MoveTarget
    /\ grid[call.before.position] = Cell(call.before.position)
    /\ grid[MoveTarget] = player
    /\ \A pos \in DOMAIN grid \ {call.before.position, MoveTarget} :
        grid[pos] = call.before.grid[pos]

(* C22 as stated: try_move(delta) fails exactly when the target cell is out
   of bounds or is not an empty cell, leaving the grid and the agent's
   position unchanged; otherwise it succeeds, the agent's old cell becomes
   an empty cell and the target cell holds the agent. *)
C22_MoveFailsExactlyWhenBlocked ==
    TriedMove
        => /\ ~call.result <=> MoveBlocked
           /\ ~call.result => MoveLeftWorld
           /\ call.result => MoveRelocated

(* C22, amended: try_move(delta) fails exactly when the move cooldown has
   not passed since the last move, or the target cell is out of bounds or is
   not an empty cell, leaving every cell and the agent's position unchanged;
   otherwise it succeeds, the agent's old cell becomes an empty cell and the
   target cell holds the agent. *)
C22_MoveFailsWhenBlockedOrCooling ==
    TriedMove
        => /\ ~call.result
                <=> (call.before.move_age < PLAYER_MOVE_COOLDOWN \/ MoveBlocked)
           /\ ~call.result => MoveLeftWorld
           /\ call.result => MoveRelocated

(* A move succeeded after an earlier one and a wait. *)
C22_Witness ==
    /\ TriedMove
    /\ call.result
    /\ call.before.position \notin Starts
    /\ MoveRelocated

(* A move onto an empty cell failed within the cooldown. *)
C22_FailedWithinCooldown ==
    /\ TriedMove
    /\ ~call.result
    /\ ~MoveBlocked
    /\ call.before.move_age < PLAYER_MOVE_COOLDOWN


(* ---------------------------------------------------------------------- *)
(* C23                                                                      *)
(* ---------------------------------------------------------------------- *)
(* The place of a step among up, right, down, left; 0 for any other step. *)
CardinalRank(pos, next_pos) ==
    LET d == <<next_pos[1] - pos[1], next_pos[2] - pos[2]>>
    IN  CASE d = <<0, -1>> -> 1
          [] d = <<1, 0>> -> 2
          [] d = <<0, 1>> -> 3
          [] d = <<-1, 0>> -> 4
          [] OTHER -> 0

(* C23: for every position, on the grid or off it, get_valid_neighbors
   returns without raising at most 4 positions, each on the grid and one
   step up, right, down or left of the input, in that order; a search for a
   goal off the grid returns no route and does not raise. *)
C23_NeighboursAndOffGridGoal ==
    /\ call.op = "get_valid_neighbors" =>
         /\ raised = None
         /\ Len(call.result) <= 4
         /\ \A i \in 1 .. Len(call.result) :
              /\ call.result[i] \in Pos
              /\ CardinalRank(call.pos, call.result[i]) > 0
         /\ \A i, j \in 1 .. Len(call.result) :
              i < j => CardinalRank(call.pos, call.result[i])
                         < CardinalRank(call.pos, call.result[j])
    /\ call.op = "search off grid" =>
         /\ raised = None
         /\ call.result = None

(* Reached: a position off the grid was asked about and has one neighbour
   on it. *)
C23_Witness ==
    /\ call.op = "get_valid_neighbors"
    /\ call.pos \notin Pos
    /\ Len(call.result) = 1

(* Reached: a corner asked about, with two neighbours (right, then down). *)
C23_CornerNeighbours ==
    /\ call.op = "get_valid_neighbors"
    /\ call.pos = <<0, 0>>
    /\ call.result = << <<1, 0>>, <<0, 1>> >>

(* Reached: a search with a budget for a goal off the grid, made with a
   rock on the grid. *)
C23_OffGridSearched ==
    /\ call.op = "search off grid"
    /\ call.search = "find_path_to_position"
    /\ sticks_collected > 0
    /\ \E pos \in Pos : is_rock(pos)


(* ---------------------------------------------------------------------- *)
(* C24                                                                      *)
(* ---------------------------------------------------------------------- *)
(* The cells joined to the set cells by steps up, right, down and left
   through cells outside blocked. *)
RECURSIVE Joined(_, _)
Joined(cells, blocked) ==
    LET more == cells \cup {q \in Pos \ blocked :
                               \E p \in cells : Manhattan(p, q) = 1}
    IN  IF more = cells THEN cells ELSE Joined(more, blocked)

(* Every cell outside blocked is joined to the player's cell. *)
OneRegion(blocked) == Joined({player.position}, blocked) = Pos \ blocked

RocksIn(g) == {pos \in DOMAIN g : g[pos].type = "Rock"}

Used == call.op = "key update" /\ call.space

(* What the cell used held before the update. *)
UsedType == TypeIn(call.before.grid, call.target_pos)

(* C24: on the easy difficulty, in every state of a game in progress,
   every cell that is not a rock is joined to the player's cell by steps
   through cells that are not rocks; and after a stick was collected and no
   rock placed, no empty cell could take a rock and leave one region. *)
C24_OneRegion ==
    /\ OneRegion(RockCells)
    /\ (Used /\ UsedType = "Stick" /\ RockCells = RocksIn(call.before.grid))
         => \A pos \in empty_positions(grid) : ~OneRegion(RockCells \cup {pos})

(* Reached: a stick was collected and a rock placed with the new stick,
   next to rocks placed before. *)
C24_Witness ==
    /\ Used /\ UsedType = "Stick"
    /\ RockCells # RocksIn(call.before.grid)
    /\ Cardinality(RockCells) > MaxPlaced

(* Reached: a stick was collected and no rock was placed, empty cells
   being left. *)
C24_NoRockPlaced ==
    /\ Used /\ UsedType = "Stick"
    /\ RockCells = RocksIn(call.before.grid)
    /\ empty_positions(grid) # {}

(* Reached: a rock was removed. *)
C24_RockRemoved ==
    /\ Used /\ UsedType = "Rock"
    /\ ~is_rock(call.target_pos)

(* Reached: the player moved. *)
C24_Moved ==
    /\ call.op = "key update"
    /\ call.before.position # player.position
    /\ RockCells # {}


(* ---------------------------------------------------------------------- *)
(* C25                                                                      *)
(* ---------------------------------------------------------------------- *)
StickCells == {pos \in Pos : TypeOf(pos) = "Stick"}

(* C25: after the game is set up and after every stick collection the grid
   holds exactly one stick. *)
C25_OneStick ==
    (call = NoCall \/ (Used /\ UsedType = "Stick"))
        => Cardinality(StickCells) = 1

(* Reached: a stick was collected from the game as set up, and one stick is
   on the grid. *)
C25_CollectedLeavesOneStick ==
    /\ Used /\ UsedType = "Stick"
    /\ sticks_collected = 1
    /\ Cardinality(StickCells) = 1


(* ---------------------------------------------------------------------- *)
(* C26                                                                      *)
(* ---------------------------------------------------------------------- *)
(* get_movement ran its movement step: the update went past the cooldown
   and no action had just been used. *)
Stepped == Updated /\ ~call.did_use_action

(* The route get_movement held when it took its movement step: the one it
   had, or the one it had just planned. *)
RouteHeld == IF call.planned THEN call.plan ELSE call.before.current_path

(* C26: in get_movement the head waypoint of the committed route is removed
   if and only if try_move toward it succeeded; right after a removal the
   agent stands on the removed waypoint; when try_move fails the route is
   unchanged. *)
C26_HeadRemovedIffMoved ==
    Stepped
        => /\ call.moved <=> (RouteHeld # <<>> /\ call.route = Tail(RouteHeld))
           /\ call.moved => player.position = Head(RouteHeld)
           /\ ~call.moved => call.route = RouteHeld

(* Reached: a move succeeded on a route of two waypoints or more. *)
C26_Witness ==
    /\ Stepped
    /\ call.moved
    /\ Len(RouteHeld) >= 2
    /\ call.route = Tail(RouteHeld)

(* Reached: the move toward the head waypoint failed and the route was
   kept. *)
C26_FailedKeepsRoute ==
    /\ Stepped
    /\ ~call.moved
    /\ RouteHeld # <<>>
    /\ call.route = RouteHeld


(* ---------------------------------------------------------------------- *)
(* C27                                                                      *)
(* ---------------------------------------------------------------------- *)
(* C27: sticks_collected is never negative; using a rock with at least one
   stick collected takes exactly one stick and leaves an empty cell where
   the rock was, every other rock and the stick staying; using a rock with
   no stick collected changes neither the rocks, nor the stick, nor
   sticks_collected. *)
C27_RockUsePaidFor ==
    /\ sticks_collected >= 0
    /\ (Used /\ UsedType = "Rock" /\ call.before.sticks_collected >= 1)
         => /\ sticks_collected = call.before.sticks_collected - 1
            /\ TypeOf(call.target_pos) = "Cell"
            /\ RockCells = RocksIn(call.before.grid) \ {call.target_pos}
            /\ Observation.sticks = ObservationOf(call.before.grid).sticks
    /\ (Used /\ UsedType = "Rock" /\ call.before.sticks_collected = 0)
         => /\ sticks_collected = 0
            /\ TypeOf(call.target_pos) = "Rock"
            /\ Observation = ObservationOf(call.before.grid)

(* Reached: a rock was used with one stick collected and is gone. *)
C27_Witness ==
    /\ Used /\ UsedType = "Rock"
    /\ call.before.sticks_collected = 1
    /\ sticks_collected = 0
    /\ TypeOf(call.target_pos) = "Cell"

(* Reached: a rock was used with no stick collected and stays. *)
C27_RockKept ==
    /\ Used /\ UsedType = "Rock"
    /\ call.before.sticks_collected = 0
    /\ is_rock(call.target_pos)


(* ---------------------------------------------------------------------- *)
(* C28                                                                      *)
(* ---------------------------------------------------------------------- *)
(* C28: the route a planning run commits holds at most as many rocks as
   the agent has sticks collected at that moment. *)
C28_CommittedRoutePaidFor ==
    (Planned /\ handler_path # <<>>)
        => RocksOn(handler_path) <= sticks_collected

(* Reached: a route across a rock was committed with one stick collected. *)
C28_Witness ==
    /\ Planned
    /\ handler_path # <<>>
    /\ sticks_collected = 1
    /\ RocksOn(handler_path) = 1

(* Reached: with no stick collected and no way round the rocks, nothing was
   committed. *)
C28_NothingCommitted ==
    /\ Planned
    /\ raised = None
    /\ call.target_stick # None
    /\ sticks_collected = 0
    /\ call.searched
    /\ handler_path = <<>>


(* ---------------------------------------------------------------------- *)
(* C29                                                                      *)
(* ---------------------------------------------------------------------- *)
(* C29: in an update in which the handler accepts an action exactly one
   cell interaction takes effect: over the update sticks_collected rises by
   exactly one or falls by exactly one. *)
C29_OneInteractionPerTick ==
    (Updated /\ call.should_use_action)
        => \/ sticks_collected = call.sticks_before + 1
           \/ sticks_collected = call.sticks_before - 1

(* Reached: an accepted action in whose update two sticks were collected. *)
C29_TwoSticksInOneTick ==
    /\ Updated
    /\ call.should_use_action
    /\ sticks_collected = call.sticks_before + 2

(* Reached: an accepted action in whose update a stick was collected and
   spent again on the rock placed with the next stick. *)
C29_CollectedAndSpent ==
    /\ Updated
    /\ call.should_use_action
    /\ call.target_cell = "Stick"
    /\ sticks_collected = call.sticks_before


(* ---------------------------------------------------------------------- *)
(* C30                                                                      *)
(* ---------------------------------------------------------------------- *)
(* No action accepted yet, a stick on the grid, and a way to it from the
   agent's cell through cells that are not rocks. *)
RouteToStick ==
    /\ ~last_action_success
    /\ raised = None
    /\ \E stick \in StickCells : RockFreeDistance(player.position, stick) >= 0

(* The update just made found the stick in the cell the agent faces and the
   handler accepted the action on it. *)
Collected ==
    /\ Updated
    /\ call.should_use_action
    /\ call.target_cell = "Stick"
    /\ Manhattan(player.position, call.target_pos) = 1
    /\ call.target_pos = <<player.position[1] + player.facing[1],
                           player.position[2] + player.facing[2]>>
    /\ ~call.world_kept

(* C30: if a way to the stick through cells that are not rocks exists, and
   until then only the agent's moves change the grid, then with the loop
   running and the clock advancing the agent comes to stand next to the
   stick, facing it, and collects it. *)
C30_EventuallyCollects == RouteToStick ~> Collected

(* Reached: the stick was collected at the end of a route of two moves or
   more, round a rock. *)
C30_Witness ==
    /\ Collected
    /\ Len(handler_path) >= 4
    /\ handler_path[Len(handler_path)] = call.target_pos
    /\ RockCells # {}

====
